---- MODULE Spec2Model ----
(***************************************************************************)
(* Idea generation pipeline of reddit-product-idea-generator:              *)
(* IdeaGeneratorPipeline (lib/processing/idea-generator-pipeline.ts) with  *)
(* the parts of ContentProcessor, OpenAIClient and the subreddit list it   *)
(* calls.  runPipeline races executeProcessing against a timer; both are   *)
(* modelled as processes (mpc, pc) that interleave at their await points.  *)
(***************************************************************************)
EXTENDS Integers, Sequences, FiniteSets, TLC

\* ------------------------------------------------------------------------
\* Bounds of the model
\* ------------------------------------------------------------------------
NumSources == 2
NumThreads == 3
MaxPosts == 2
MaxGenIdeas == 1
MaxFailures == 1
MaxRankInput == 3
MaxRankIdeas == 3
MaxParseInput == 2
MaxParseIdeas == 2
MaxTextLen == 1
MaxHashReplies == 1
MaxClock == 5
NumCallers == 2
MaxRequests == 2
MaxTicks == 4
MaxGroupInput == 3
MaxRepeats == 1
MaxProblems == 2
MaxWords == 2
MaxSortTypes == 3

\* ------------------------------------------------------------------------
\* Program constants
\* ------------------------------------------------------------------------
minPostScore == 5
minCommentScore == 3
maxCommentsPerPost == 10
MinCommentBody == 20
HashedComments == 5
DefaultMaxIdeas == 5
minScore == 65
minInterval == 1000

sortTypes == <<"hot", "top">>

\* getEnabledSubreddits(): TARGET_SUBREDDITS filtered by enabled, stably
\* sorted by priority descending.
EnabledSubreddits ==
  <<"entrepreneur", "SaaS", "startups", "smallbusiness", "webdev",
    "productivity", "freelance">>

Subreddits == SubSeq(EnabledSubreddits, 1, NumSources)

mapSubredditToCategory(s) ==
  CASE s \in {"entrepreneur", "smallbusiness", "freelance", "startups"} -> "Business"
    [] s = "SaaS" -> "Software"
    [] s = "webdev" -> "Technology"
    [] s = "productivity" -> "Lifestyle"
    [] OTHER -> "General"

\* ------------------------------------------------------------------------
\* Text: a string is a sequence of one-character strings
\* ------------------------------------------------------------------------
Rep(c, n) == [i \in 1..n |-> c]

toLowerCaseChar(c) ==
  CASE c = "A" -> "a"
    [] c = "B" -> "b"
    [] c = "C" -> "c"
    [] OTHER -> c

toLowerCase(s) == [i \in 1..Len(s) |-> toLowerCaseChar(s[i])]

RECURSIVE JoinFrom(_, _, _)
JoinFrom(parts, sep, i) ==
  IF i > Len(parts) THEN <<>>
  ELSE IF i = Len(parts) THEN parts[i]
  ELSE parts[i] \o sep \o JoinFrom(parts, sep, i + 1)

\* Array.prototype.join
Join(parts, sep) == JoinFrom(parts, sep, 1)

\* Array.prototype.slice(0, n)
Slice(s, n) == SubSeq(s, 1, IF n < Len(s) THEN n ELSE Len(s))

\* ------------------------------------------------------------------------
\* The discussion source: threads (root post + replies) of a subreddit
\* ------------------------------------------------------------------------
Threads == [sub : {Subreddits[i] : i \in 1..NumSources}, k : 1..NumThreads]

Digit(k) == CASE k = 1 -> "1" [] k = 2 -> "2" [] k = 3 -> "3" [] k = 4 -> "4" [] OTHER -> "9"

PostId(t) == <<t.sub, Digit(t.k)>>
PostTitle(t) == <<t.sub, " ", "p", Digit(t.k)>>
PostSelftext(t) == IF t.k % 2 = 0 THEN <<"b", "o", "d", "y">> ELSE <<>>
PostScore(t) == IF t.k % 3 = 0 THEN 2 ELSE 50
PostStickied(t) == t.k % 4 = 0

\* The replies listing of a thread as the API returns it: threads with an
\* even k carry one reply that passes the pipeline's filter and two that
\* do not (low score, short body).
PostComments(t) ==
  IF t.k % 2 = 0
  THEN << [score |-> 1, body |-> Rep("y", MinCommentBody + 1)],
          [score |-> 7, body |-> Rep("x", MinCommentBody + 1)],
          [score |-> 9, body |-> Rep("z", MinCommentBody)] >>
  ELSE <<>>

\* ------------------------------------------------------------------------
\* ContentProcessor.generateContentHash: the digest is taken to be
\* collision-free, so the fingerprint is the hashed string itself.
\* ------------------------------------------------------------------------
Sha256(content) == <<"sha256">> \o content

\* lines 207-213 on a post given by its title and selftext (an absent
\* selftext is the empty string, line 209)
ContentHash(title, selftext, comments) ==
  Sha256(Join(<<title, selftext>>
              \o [i \in 1..Len(Slice(comments, HashedComments)) |-> comments[i].body],
              <<"|">>))

generateContentHash(t, comments) ==
  ContentHash(PostTitle(t), PostSelftext(t), comments)

\* ------------------------------------------------------------------------
\* Generated ideas as parsed from the model's JSON.  A JSON value is a
\* number or something else; scoring maps the score names present in the
\* object to their values; rest stands for the required fields other than
\* name, targetAudience and scoring being truthy and the three arrays
\* (tags, sourceSubreddits, sourceLinks) being non-empty arrays.
\* ------------------------------------------------------------------------
requiredScores ==
  {"overall", "painSeverity", "marketSize", "competition", "implementationDifficulty"}

Num(n) == [type |-> "number", n |-> n]
Str == [type |-> "string", n |-> 0]

Scores(o) == [s \in requiredScores |-> Num(IF s = "overall" THEN o ELSE 50)]

Idea(name, audience, o) ==
  [name |-> name, targetAudience |-> audience, scoring |-> Scores(o), rest |-> TRUE]

Overall(idea) == idea.scoring["overall"].n

\* Variant: the scoring object is not inspected
validateIdeaNoScores(idea) ==
  idea.name # <<>> /\ idea.targetAudience # <<>> /\ idea.rest

\* OpenAIClient.validateIdea (314-362): an absent scoring object (line 330)
\* and one holding none of the scores (line 343) are both rejected
validateIdea(idea) ==
  /\ idea.name # <<>> /\ idea.targetAudience # <<>> /\ idea.rest
  /\ \A sc \in requiredScores :
       /\ sc \in DOMAIN idea.scoring
       /\ idea.scoring[sc].type = "number"
       /\ idea.scoring[sc].n >= 0
       /\ idea.scoring[sc].n <= 100

\* ------------------------------------------------------------------------
\* Idea aggregation: deduplicateIdeas and rankIdeas
\* ------------------------------------------------------------------------
IdeaKey(idea) ==
  toLowerCase(idea.name) \o <<"_">> \o toLowerCase(idea.targetAudience)

RECURSIVE DedupFrom(_, _, _)
DedupFrom(ideas, i, seen) ==
  IF i > Len(ideas) THEN <<>>
  ELSE IF IdeaKey(ideas[i]) \in seen THEN DedupFrom(ideas, i + 1, seen)
  ELSE <<ideas[i]>> \o DedupFrom(ideas, i + 1, seen \cup {IdeaKey(ideas[i])})

deduplicateIdeas(ideas) == DedupFrom(ideas, 1, {})

\* Array.prototype.sort is stable; comparator b.scoring.overall - a.scoring.overall
RECURSIVE InsertDesc(_, _)
InsertDesc(sorted, x) ==
  IF sorted = <<>> THEN <<x>>
  ELSE IF Overall(Head(sorted)) >= Overall(x)
       THEN <<Head(sorted)>> \o InsertDesc(Tail(sorted), x)
       ELSE <<x>> \o sorted

RECURSIVE SortDesc(_)
SortDesc(ideas) ==
  IF ideas = <<>> THEN <<>>
  ELSE InsertDesc(SortDesc(SubSeq(ideas, 1, Len(ideas) - 1)), ideas[Len(ideas)])

\* Variant: the ranking is not truncated
rankIdeasNoSlice(ideas, maxIdeas) == SortDesc(ideas)

rankIdeas(ideas, maxIdeas) == Slice(SortDesc(ideas), maxIdeas)

\* lines 459-461 of generateIdeasFromContent
AggregateIdeas(allIdeas, maxIdeas) == rankIdeas(deduplicateIdeas(allIdeas), maxIdeas)

\* OpenAIClient.parseResponse (277-280): ideas failing validateIdea and ideas
\* scoring below config.minScore are dropped, at most config.maxIdeas of the
\* rest are kept (an undefined or non-numeric score compares false)
ParseResponse(ideas, maxIdeas) ==
  Slice(SelectSeq(SelectSeq(ideas, validateIdea),
                  LAMBDA idea : /\ "overall" \in DOMAIN idea.scoring
                                /\ idea.scoring["overall"].type = "number"
                                /\ Overall(idea) >= minScore),
        maxIdeas)

\* Variant: the quotient is rounded down
CeilRoundedDown(a, b) == a \div b

\* Math.ceil(a / b) for a >= 0, b > 0
Ceil(a, b) == (a + b - 1) \div b

\* ------------------------------------------------------------------------
\* State
\* ------------------------------------------------------------------------
VARIABLES
  mpc,            \* runPipeline: "idle", "racing", "log", "returned", "thrown"
  pc,             \* executeProcessing: position of the (possibly detached) promise
  timedOut,       \* the timer rejected the race
  config,         \* finalConfig fields that vary: maxIdeas, enableDeduplication
  result,         \* the PipelineResult object shared by runPipeline and executeProcessing
  si, ti, pi,     \* loop indices: subreddit, sort type, post
  posts,          \* listing returned by the current fetchSubredditPosts
  sub,            \* processSubreddit's result object
  comments,       \* fetchPostComments' return value for the current post
  processed,      \* processContent's return value for the current post
  allProcessedContent,
  grouped, ci, allIdeas,   \* generateIdeasFromContent locals
  fingerprints,   \* table content_fingerprints (content_hash values)
  productIdeas,   \* table product_ideas
  batches,        \* table processing_batches
  failures,       \* number of collaborator failures injected so far
  lookup,         \* outcome of the last fingerprint lookup
  written,        \* threads whose fingerprint upsert has succeeded
  fetchLog,       \* one record per fetch (posts or comments) that failed
  fetchedN, begunN, fetchCalls, \* threads listed / threads whose loop body began / listing calls
  genLog,         \* one record per call of openaiClient.generateIdeas
  rkIdeas, rkMax, rkOut, rkPc,  \* aggregation applied to an arbitrary idea list
  prIdeas, prMax, prOut, prPc,  \* parseResponse applied to an arbitrary parsed.ideas array
  cpIn, cpOut, cpPc,            \* a ContentProcessor method or pipeline helper applied to arbitrary input
  dateNow, lastRequestTime, callers, sentAt,  \* RedditApiClient singleton and its callers
  runs, fpTable, processedCount           \* concurrent runs sharing content_fingerprints

vars ==
  <<mpc, pc, timedOut, config, result, si, ti, pi, posts, sub, comments,
    processed, allProcessedContent, grouped, ci, allIdeas, fingerprints,
    productIdeas, batches, failures, lookup, written, fetchLog,
    fetchedN, begunN, fetchCalls, genLog, rkIdeas, rkMax, rkOut, rkPc,
    prIdeas, prMax, prOut, prPc, cpIn, cpOut, cpPc,
    dateNow, lastRequestTime, callers, sentAt, runs, fpTable, processedCount>>

pipeVars ==
  <<mpc, pc, timedOut, config, result, si, ti, pi, posts, sub, comments,
    processed, allProcessedContent, grouped, ci, allIdeas, fingerprints,
    productIdeas, batches, failures, lookup, written, fetchLog,
    fetchedN, begunN, fetchCalls, genLog>>

rankVars == <<rkIdeas, rkMax, rkOut, rkPc>>

parseVars == <<prIdeas, prMax, prOut, prPc>>

cpVars == <<cpIn, cpOut, cpPc>>

rateVars == <<dateNow, lastRequestTime, callers, sentAt>>

concVars == <<runs, fpTable, processedCount>>

\* Variables of the specifications that exercise one part on its own
pureVars == <<rankVars, parseVars, cpVars, rateVars, concVars>>

\* What an action of one of these specifications leaves alone
exceptRank == <<pipeVars, parseVars, cpVars, rateVars, concVars>>
exceptParse == <<pipeVars, rankVars, cpVars, rateVars, concVars>>
exceptCp == <<pipeVars, rankVars, parseVars, rateVars, concVars>>
exceptRate == <<pipeVars, rankVars, parseVars, cpVars, concVars>>
exceptConc == <<pipeVars, rankVars, parseVars, cpVars, rateVars>>

\* ------------------------------------------------------------------------
\* Collaborator outcomes
\* ------------------------------------------------------------------------
\* The subreddit's ranking under a sort strategy: "hot" lists its threads
\* 1, 2, ..., "top" lists them 2, 3, ..., 1
Ranking(s, sort) ==
  [i \in 1..NumThreads |->
     [sub |-> s, k |-> IF sort = "hot" THEN i ELSE (i % NumThreads) + 1]]

\* What redditClient.getSubredditPosts can return: nothing, or the first
\* threads of the ranking up to the bound
Listings(s, sort) ==
  {SubSeq(Ranking(s, sort), 1, n) :
     n \in {0, IF MaxPosts < NumThreads THEN MaxPosts ELSE NumThreads}}

\* Ideas the generation collaborator can return for a category: none, or
\* the first ideas of a catalogue whose first entry is shared by all categories (in a
\* different letter case per category), whose second entry scores below
\* config.minScore, and whose further entries are the category's own
CatalogueIdea(category, n) ==
  IF n = 1
  THEN Idea(IF category = "Business" THEN <<"a">> ELSE <<"A">>, <<"c">>,
            IF category = "Business" THEN 70 ELSE 90)
  ELSE Idea(<<category, Digit(n)>>, <<"c">>, IF n = 2 THEN 60 ELSE 80)

GenResponses(category) ==
  {[i \in 1..n |-> CatalogueIdea(category, i)] : n \in {0, MaxGenIdeas}}

\* Every storage operation starts with createClient() of lib/supabase/server,
\* which either yields a client or rejects (outcome "noClient" below).

CanFail == failures < MaxFailures

ErrPost(t, m) == [scope |-> "Post", id |-> PostId(t), msg |-> m]
ErrPipeline(m) == [scope |-> "", id |-> <<>>, msg |-> m]

EmptySub == [postsProcessed |-> 0, errors |-> <<>>, processedContent |-> <<>>]

NoLookup == [o |-> "none", n |-> 0]

NoProcessed == [contentHash |-> <<>>, category |-> "", post |-> <<>>]

NewResult ==
  [success |-> FALSE, ideasGenerated |-> 0, subredditsProcessed |-> 0,
   postsAnalyzed |-> 0, errors |-> <<>>, ideas |-> <<>>]

InitPipe ==
  /\ mpc = "idle" /\ pc = "idle" /\ timedOut = FALSE
  /\ config = [maxIdeas |-> DefaultMaxIdeas, enableDeduplication |-> TRUE]
  /\ result = NewResult
  /\ si = 1 /\ ti = 1 /\ pi = 1 /\ posts = <<>>
  /\ sub = EmptySub /\ comments = <<>> /\ processed = NoProcessed
  /\ allProcessedContent = <<>>
  /\ grouped = <<>> /\ ci = 1 /\ allIdeas = <<>>
  /\ fingerprints = {} /\ productIdeas = <<>> /\ batches = <<>>
  /\ failures = 0 /\ lookup = NoLookup /\ written = {} /\ fetchLog = <<>>
  /\ fetchedN = 0 /\ begunN = 0 /\ fetchCalls = 0 /\ genLog = <<>>

InitRankIdle == rkIdeas = <<>> /\ rkMax = 0 /\ rkOut = <<>> /\ rkPc = "idle"

InitParseIdle == prIdeas = <<>> /\ prMax = 0 /\ prOut = <<>> /\ prPc = "idle"

InitCpIdle == cpIn = <<>> /\ cpOut = <<>> /\ cpPc = "idle"

InitRateIdle ==
  dateNow = 0 /\ lastRequestTime = 0 /\ callers = <<>> /\ sentAt = <<>>

InitConcIdle == runs = <<>> /\ fpTable = {} /\ processedCount = <<>>

Init ==
  /\ InitPipe /\ InitRankIdle /\ InitParseIdle /\ InitCpIdle
  /\ InitRateIdle /\ InitConcIdle

\* ------------------------------------------------------------------------
\* runPipeline (lines 90-149)
\* ------------------------------------------------------------------------
\* lines 93-125: build the result object, arm the timer, start executeProcessing
RunPipeline ==
  /\ mpc = "idle"
  /\ \E d \in BOOLEAN :
       config' = [maxIdeas |-> DefaultMaxIdeas, enableDeduplication |-> d]
  /\ result' = NewResult
  /\ mpc' = "racing" /\ pc' = "fetchPosts"
  /\ UNCHANGED <<timedOut, si, ti, pi, posts, sub, comments, processed,
                 allProcessedContent, grouped, ci, allIdeas, fingerprints,
                 productIdeas, batches, failures, lookup, written,
                 fetchLog, fetchedN, begunN, fetchCalls, genLog, pureVars>>

\* line 129: the race was won by processingPromise
RaceResolved(res) == [res EXCEPT !.success = TRUE]

\* Variant: the catch block records the message but the run is reported successful
RaceRejectedSuccess(res, m) ==
  [res EXCEPT !.success = TRUE, !.errors = Append(@, ErrPipeline(m))]

\* Variant: the catch block drops the message
RaceRejectedSilent(res, m) == res

\* lines 130-135: the race rejected with an Error carrying message m
RaceRejected(res, m) == [res EXCEPT !.errors = Append(@, ErrPipeline(m))]

\* lines 117-122 and 127: the timer fires while runPipeline awaits the race;
\* executeProcessing is not cancelled
Timeout ==
  /\ mpc = "racing"
  /\ timedOut' = TRUE
  /\ result' = RaceRejected(result, "Pipeline timeout")
  /\ mpc' = "log"
  /\ UNCHANGED <<pc, config, si, ti, pi, posts, sub, comments, processed,
                 allProcessedContent, grouped, ci, allIdeas, fingerprints,
                 productIdeas, batches, failures, lookup, written,
                 fetchLog, fetchedN, begunN, fetchCalls, genLog, pureVars>>

\* lines 146-148 and logPipelineResult (526-543): createClient is awaited
\* outside the try block
LogPipelineResult ==
  /\ mpc = "log"
  /\ \E o \in {"ok", "insertThrows", "noClient"} :
       /\ o # "ok" => CanFail
       /\ failures' = IF o = "ok" THEN failures ELSE failures + 1
       /\ mpc' = IF o = "noClient" THEN "thrown" ELSE "returned"
       /\ batches' =
            IF o = "ok"
            THEN Append(batches,
                   [status |-> IF result.success THEN "completed" ELSE "failed"])
            ELSE batches
  /\ UNCHANGED <<pc, timedOut, config, result, si, ti, pi, posts, sub,
                 comments, processed, allProcessedContent, grouped, ci,
                 allIdeas, fingerprints, productIdeas, lookup,
                 written, fetchLog, fetchedN, begunN, fetchCalls, genLog,
                 pureVars>>

\* ------------------------------------------------------------------------
\* executeProcessing settles (lines 154-206 seen from the race at line 127)
\* ------------------------------------------------------------------------
\* The promise resolves: runPipeline, if still awaiting the race, continues
\* at line 129.
Resolve(res) ==
  /\ pc' = "resolved"
  /\ IF mpc = "racing"
     THEN mpc' = "log" /\ result' = RaceResolved(res)
     ELSE mpc' = mpc /\ result' = res

\* The promise rejects with message m: runPipeline, if still awaiting the
\* race, continues in the catch block at line 130.
Reject(res, m) ==
  /\ pc' = "rejected"
  /\ IF mpc = "racing"
     THEN mpc' = "log" /\ result' = RaceRejected(res, m)
     ELSE mpc' = mpc /\ result' = res

\* ------------------------------------------------------------------------
\* executeProcessing (lines 154-206) and processSubreddit (211-293).
\* pc names the await the detached promise is suspended at; the synchronous
\* code between two awaits belongs to the action that ends the first one.
\* ------------------------------------------------------------------------
\* groupContentByCategory (553-567): Object.entries keeps first-seen order
RECURSIVE GroupFrom(_, _, _)
GroupFrom(content, i, acc) ==
  IF i > Len(content) THEN acc
  ELSE LET c == content[i].category
           at == {j \in 1..Len(acc) : acc[j].category = c}
       IN IF at = {}
          THEN GroupFrom(content, i + 1,
                         Append(acc, [category |-> c, content |-> <<content[i]>>]))
          ELSE LET j == CHOOSE x \in at : TRUE
               IN GroupFrom(content, i + 1,
                            [acc EXCEPT ![j].content = Append(@, content[i])])

groupContentByCategory(content) == GroupFrom(content, 1, <<>>)

\* Variant: the subreddit's count replaces the run's count
MergeSubredditOverwrites(res, sr) ==
  [res EXCEPT !.subredditsProcessed = @ + 1,
              !.postsAnalyzed = sr.postsProcessed,
              !.errors = @ \o sr.errors]

\* lines 174-179: fold the subreddit's result into the run's result
MergeSubreddit(res, sr) ==
  [res EXCEPT !.subredditsProcessed = @ + 1,
              !.postsAnalyzed = @ + sr.postsProcessed,
              !.errors = @ \o sr.errors]

\* line 244: the post is skipped without any call
Filtered(t) == PostScore(t) < minPostScore \/ PostStickied(t)

\* Variant: line 244 never skips a post
NextEligibleNoFilter(l, i) == i

\* Index of the first post of listing l after index i that passes line 244
RECURSIVE NextEligible(_, _)
NextEligible(l, i) ==
  IF i > Len(l) THEN i
  ELSE IF Filtered(l[i]) THEN NextEligible(l, i + 1)
  ELSE i

\* lines 249-257: the first await of the loop body
FirstAwait == IF config.enableDeduplication THEN "dupCheck" ELSE "comments"

\* processSubreddit returns sr (291-292); lines 174-179; then the next
\* subreddit, or line 190 after the last one
FinishSubreddit(sr) ==
  LET res == MergeSubreddit(result, sr)
      all == allProcessedContent \o sr.processedContent
  IN /\ allProcessedContent' = all
     /\ sub' = EmptySub
     /\ posts' = <<>> /\ pi' = 1 /\ ti' = 1
     /\ IF si < NumSources
        THEN /\ si' = si + 1
             /\ pc' = "fetchPosts"
             /\ result' = res
             /\ UNCHANGED <<mpc, grouped, ci, allIdeas>>
        ELSE /\ si' = si
             /\ IF Len(all) > 0
                THEN /\ pc' = "generate"
                     /\ result' = res
                     /\ grouped' = groupContentByCategory(all)
                     /\ ci' = 1 /\ allIdeas' = <<>>
                     /\ mpc' = mpc
                ELSE /\ Resolve(res)
                     /\ UNCHANGED <<grouped, ci, allIdeas>>

\* The loops of lines 234 and 241 go on after post i of listing l (i = 0:
\* the listing has just arrived) under sort strategy t, with sr the
\* subreddit's result so far: to the first await of the next post that
\* passes line 244, else to the next sort strategy, else out of the subreddit
Proceed(l, sr, i, t) ==
  LET j == NextEligible(l, i + 1)
  IN /\ begunN' = begunN + (IF j <= Len(l) THEN j ELSE Len(l)) - i
     /\ IF j <= Len(l)
        THEN /\ pc' = FirstAwait /\ pi' = j /\ ti' = t
             /\ posts' = l /\ sub' = sr
             /\ UNCHANGED <<mpc, result, si, allProcessedContent, grouped,
                            ci, allIdeas>>
        ELSE IF t < Len(sortTypes)
        THEN /\ pc' = "fetchPosts" /\ pi' = 1 /\ ti' = t + 1
             /\ posts' = <<>> /\ sub' = sr
             /\ UNCHANGED <<mpc, result, si, allProcessedContent, grouped,
                            ci, allIdeas>>
        ELSE FinishSubreddit(sr)

\* lines 276-281: the per-post catch records the error
PostCatch(sr, t, m) == [sr EXCEPT !.errors = Append(@, ErrPost(t, m))]

\* Variant: the error escapes the per-post try and ends the subreddit (line 284)
PostCatchAbortsSource == [i |-> Len(posts), t |-> Len(sortTypes)]

\* lines 276-282: after the per-post catch the loop goes on with the next post
PostCatchNext == [i |-> pi, t |-> ti]

\* fetchSubredditPosts (298-316) as awaited at line 235: a failed request is
\* logged to the console and an empty listing is returned
FetchSubredditPosts ==
  /\ pc = "fetchPosts"
  /\ \E ok \in BOOLEAN :
       /\ ~ok => CanFail
       /\ \E l \in IF ok THEN Listings(Subreddits[si], sortTypes[ti]) ELSE {<<>>} :
            /\ fetchedN' = fetchedN + Len(l)
            /\ Proceed(l, sub, 0, ti)
       /\ failures' = IF ok THEN failures ELSE failures + 1
       /\ fetchLog' = IF ok THEN fetchLog
                      ELSE Append(fetchLog, [call |-> "posts", si |-> si, ti |-> ti])
  /\ fetchCalls' = fetchCalls + 1
  /\ lookup' = NoLookup
  /\ UNCHANGED <<timedOut, config, comments, processed, fingerprints,
                 productIdeas, batches, written, genLog, pureVars>>

\* isDuplicateContent (350-371) as called at lines 249-254.  createClient is
\* awaited before the try block, so its rejection reaches the per-post catch.
IsDuplicateContent ==
  /\ pc = "dupCheck"
  /\ \E o \in {"ok", "queryError", "throws", "noClient"} :
       /\ o # "ok" => CanFail
       /\ failures' = IF o = "ok" THEN failures ELSE failures + 1
       /\ lookup' = [o |-> o, n |-> begunN]
       /\ IF o = "noClient"
          THEN Proceed(posts, PostCatch(sub, posts[pi], "storage client unavailable"),
                       PostCatchNext.i, PostCatchNext.t)
          ELSE IF o = "ok" /\ generateContentHash(posts[pi], <<>>) \in fingerprints
          THEN Proceed(posts, sub, pi, ti)
          ELSE /\ pc' = "comments"
               /\ UNCHANGED <<mpc, result, si, ti, pi, posts, sub, begunN,
                              allProcessedContent, grouped, ci, allIdeas>>
  /\ UNCHANGED <<timedOut, config, comments, processed, fingerprints,
                 productIdeas, batches, written, fetchLog,
                 fetchedN, fetchCalls, genLog, pureVars>>

CommentPasses(c) == c.score >= minCommentScore /\ Len(c.body) > MinCommentBody

\* fetchPostComments (321-345) as awaited at line 257
FetchPostComments ==
  /\ pc = "comments"
  /\ \E ok \in BOOLEAN :
       /\ ~ok => CanFail
       /\ failures' = IF ok THEN failures ELSE failures + 1
       /\ comments' =
            IF ok
            THEN Slice(SelectSeq(PostComments(posts[pi]), CommentPasses),
                       maxCommentsPerPost)
            ELSE <<>>
       /\ fetchLog' = IF ok THEN fetchLog
                      ELSE Append(fetchLog, [call |-> "comments", si |-> si, ti |-> ti])
  /\ pc' = "process"
  /\ lookup' = NoLookup
  /\ UNCHANGED <<mpc, timedOut, config, result, si, ti, pi, posts, sub,
                 processed, allProcessedContent, grouped, ci, allIdeas,
                 fingerprints, productIdeas, batches, written,
                 fetchedN, begunN, fetchCalls, genLog, pureVars>>

\* ContentProcessor.processContent (169-201) as awaited at lines 265-268
ProcessContent ==
  /\ pc = "process"
  /\ \E ok \in BOOLEAN :
       /\ ~ok => CanFail
       /\ failures' = IF ok THEN failures ELSE failures + 1
       /\ IF ok
          THEN /\ processed' =
                    [contentHash |-> generateContentHash(posts[pi], comments),
                     category |-> mapSubredditToCategory(posts[pi].sub),
                     post |-> PostId(posts[pi])]
               /\ pc' = "store"
               /\ UNCHANGED <<mpc, result, si, ti, pi, posts, sub, begunN,
                              allProcessedContent, grouped, ci, allIdeas>>
          ELSE /\ Proceed(posts, PostCatch(sub, posts[pi], "processing failed"),
                          PostCatchNext.i, PostCatchNext.t)
               /\ UNCHANGED processed
  /\ UNCHANGED <<timedOut, config, comments, fingerprints, productIdeas, batches, lookup, written, fetchLog, fetchedN,
                 fetchCalls, genLog, pureVars>>

\* storeTemporaryContent (376-417) as awaited at line 271, and lines 273-275.
\* createClient is awaited before the try block; a throwing upsert or insert
\* is swallowed, an error returned in the response is ignored.  The table
\* reddit_posts_temp is only ever written, so its rows are not kept.
StoreTemporaryContent ==
  /\ pc = "store"
  /\ \E o \in {"ok", "upsertError", "upsertThrows", "insertFails", "noClient"} :
       /\ o # "ok" => CanFail
       /\ failures' = IF o = "ok" THEN failures ELSE failures + 1
       /\ fingerprints' = IF o \in {"ok", "insertFails"}
                          THEN fingerprints \cup {processed.contentHash}
                          ELSE fingerprints
       /\ written' = IF o \in {"ok", "insertFails"}
                     THEN written \cup {posts[pi]} ELSE written
       /\ IF o = "noClient"
          THEN Proceed(posts, PostCatch(sub, posts[pi], "storage client unavailable"),
                       PostCatchNext.i, PostCatchNext.t)
          ELSE Proceed(posts,
                       [sub EXCEPT !.processedContent = Append(@, processed),
                                   !.postsProcessed = @ + 1],
                       pi, ti)
  /\ UNCHANGED <<timedOut, config, comments, processed, productIdeas,
                 batches, lookup, fetchLog, fetchedN, fetchCalls, genLog,
                 pureVars>>

\* ------------------------------------------------------------------------
\* generateIdeasFromContent (422-476) and storeGeneratedIdeas (481-521)
\* ------------------------------------------------------------------------
\* lines 438-456: what one category adds to allIdeas; a throwing call is
\* logged to the console and adds nothing
CategoryIdeas(threw, ideas) == IF threw THEN <<>> ELSE ideas

\* lines 435-461 and 200-201: one openaiClient.generateIdeas call; after the
\* last category the ideas are deduplicated, ranked and put into the result
GenerateIdeas ==
  /\ pc = "generate"
  /\ \E threw \in BOOLEAN :
       /\ threw => CanFail
       /\ failures' = IF threw THEN failures + 1 ELSE failures
       /\ \E r \in IF threw THEN {<<>>} ELSE GenResponses(grouped[ci].category) :
            LET quota == Ceil(config.maxIdeas, Len(grouped))
                ideas == ParseResponse(r, quota)
                all == allIdeas \o CategoryIdeas(threw, ideas)
                ranked == AggregateIdeas(all, config.maxIdeas)
            IN /\ genLog' = Append(genLog,
                              [category |-> grouped[ci].category, threw |-> threw,
                               ideas |-> ideas, quota |-> quota])
               /\ allIdeas' = all
               /\ IF ci < Len(grouped)
                  THEN ci' = ci + 1 /\ pc' = "generate" /\ result' = result
                  ELSE /\ ci' = ci /\ pc' = "storeIdeas"
                       /\ result' = [result EXCEPT !.ideas = ranked,
                                                   !.ideasGenerated = Len(ranked)]
  /\ UNCHANGED <<mpc, timedOut, config, si, ti, pi, posts, sub, comments,
                 processed, allProcessedContent, grouped, fingerprints,
                 productIdeas, batches, lookup, written, fetchLog,
                 fetchedN, begunN, fetchCalls, pureVars>>

\* storeGeneratedIdeas (481-521) as awaited at line 204.  createClient is
\* awaited before the try block, so its rejection rejects executeProcessing.
StoreGeneratedIdeas ==
  /\ pc = "storeIdeas"
  /\ \E o \in {"ok", "insertError", "insertThrows", "noClient"} :
       /\ o # "ok" => CanFail
       /\ failures' = IF o = "ok" THEN failures ELSE failures + 1
       /\ productIdeas' = IF o = "ok" THEN Append(productIdeas, result.ideas)
                          ELSE productIdeas
       /\ IF o = "noClient"
          THEN Reject(result, "storage client unavailable")
          ELSE Resolve(result)
  /\ UNCHANGED <<timedOut, config, si, ti, pi, posts, sub, comments,
                 processed, allProcessedContent, grouped, ci, allIdeas,
                 fingerprints, batches, lookup, written, fetchLog,
                 fetchedN, begunN, fetchCalls, genLog, pureVars>>

\* ------------------------------------------------------------------------
\* The pipeline
\* ------------------------------------------------------------------------
Next ==
  \/ RunPipeline
  \/ Timeout
  \/ LogPipelineResult
  \/ FetchSubredditPosts
  \/ IsDuplicateContent
  \/ FetchPostComments
  \/ ProcessContent
  \/ StoreTemporaryContent
  \/ GenerateIdeas
  \/ StoreGeneratedIdeas

Spec == Init /\ [][Next]_vars

\* ------------------------------------------------------------------------
\* The aggregation step on its own: deduplicateIdeas, then rankIdeas, applied
\* to an arbitrary list of generated ideas
\* ------------------------------------------------------------------------
RankPool ==
  { Idea(<<"a">>, <<"c">>, 70),
    Idea(<<"A">>, <<"C">>, 90),
    Idea(<<"b">>, <<"c">>, 90),
    Idea(<<"a", "_", "b">>, <<"c">>, 80),
    Idea(<<"a">>, <<"b", "_", "c">>, 60) }

InitRank ==
  /\ InitPipe /\ InitParseIdle /\ InitCpIdle /\ InitRateIdle /\ InitConcIdle
  /\ rkIdeas \in UNION {[1..n -> RankPool] : n \in 0..MaxRankInput}
  /\ rkMax \in 0..MaxRankIdeas
  /\ rkOut = <<>>
  /\ rkPc = "input"

\* line 460
RankDeduplicate ==
  /\ rkPc = "input"
  /\ rkOut' = deduplicateIdeas(rkIdeas)
  /\ rkPc' = "deduped"
  /\ UNCHANGED <<exceptRank, rkIdeas, rkMax>>

\* line 461
RankRank ==
  /\ rkPc = "deduped"
  /\ rkOut' = rankIdeas(rkOut, rkMax)
  /\ rkPc' = "done"
  /\ UNCHANGED <<exceptRank, rkIdeas, rkMax>>

NextRank == RankDeduplicate \/ RankRank

SpecRank == InitRank /\ [][NextRank]_vars

\* ------------------------------------------------------------------------
\* OpenAIClient.parseResponse on its own, applied to an arbitrary parsed.ideas
\* array of idea objects
\* ------------------------------------------------------------------------
\* A scoring object without one score / with one score replaced
Without(scoring, sc) == [x \in DOMAIN scoring \ {sc} |-> scoring[x]]

ParsePool ==
  { Idea(<<"a">>, <<"c">>, 70),
    Idea(<<"b">>, <<"c">>, 90),
    Idea(<<"d">>, <<"c">>, 60),
    Idea(<<"e">>, <<"c">>, 0),
    Idea(<<"f">>, <<"c">>, 100),
    [Idea(<<"g">>, <<"c">>, 80) EXCEPT !.scoring = Without(@, "competition")],
    [Idea(<<"h">>, <<"c">>, 80) EXCEPT !.scoring = Without(@, "overall")],
    [Idea(<<"i">>, <<"c">>, 80) EXCEPT !.scoring["marketSize"] = Num(101)],
    [Idea(<<"j">>, <<"c">>, 80) EXCEPT !.scoring["painSeverity"] = Num(0 - 1)],
    [Idea(<<"k">>, <<"c">>, 80) EXCEPT !.scoring["implementationDifficulty"] = Str],
    [Idea(<<"l">>, <<"c">>, 80) EXCEPT !.rest = FALSE],
    Idea(<<>>, <<"c">>, 80) }

InitParse ==
  /\ InitPipe /\ InitRankIdle /\ InitCpIdle /\ InitRateIdle /\ InitConcIdle
  /\ prIdeas \in UNION {[1..n -> ParsePool] : n \in 0..MaxParseInput}
  /\ prMax \in 1..MaxParseIdeas
  /\ prOut = <<>>
  /\ prPc = "input"

\* lines 277-280
ParseIdeas ==
  /\ prPc = "input"
  /\ prOut' = ParseResponse(prIdeas, prMax)
  /\ prPc' = "done"
  /\ UNCHANGED <<exceptParse, prIdeas, prMax>>

NextParse == ParseIdeas

SpecParse == InitParse /\ [][NextParse]_vars

\* ------------------------------------------------------------------------
\* ContentProcessor.generateContentHash on its own, applied to two arbitrary
\* threads
\* ------------------------------------------------------------------------
\* Strings of at most n characters over the letters in alphabet
Texts(alphabet, n) == UNION {[1..k -> alphabet] : k \in 0..n}

\* Thread texts: title and selftext may contain the character '|'
HashInputs ==
  [title : Texts({"a", "|"}, MaxTextLen),
   selftext : Texts({"a", "|"}, MaxTextLen),
   comments : UNION {[1..k -> [body : {<<>>, <<"a">>}]] : k \in 0..MaxHashReplies}]

InitHash ==
  /\ InitPipe /\ InitRankIdle /\ InitParseIdle /\ InitRateIdle /\ InitConcIdle
  /\ cpIn \in HashInputs \X HashInputs
  /\ cpOut = <<>>
  /\ cpPc = "input"

HashFirst ==
  /\ cpPc = "input"
  /\ cpOut' = <<ContentHash(cpIn[1].title, cpIn[1].selftext, cpIn[1].comments)>>
  /\ cpPc' = "one"
  /\ UNCHANGED <<exceptCp, cpIn>>

HashSecond ==
  /\ cpPc = "one"
  /\ cpOut' = Append(cpOut,
                ContentHash(cpIn[2].title, cpIn[2].selftext, cpIn[2].comments))
  /\ cpPc' = "hashed"
  /\ UNCHANGED <<exceptCp, cpIn>>

NextHash == HashFirst \/ HashSecond

SpecHash == InitHash /\ [][NextHash]_vars

\* ------------------------------------------------------------------------
\* ContentProcessor.createProblemStatement: severity and urgency of a
\* sentence.  Here a text is a sequence of tokens (a word or a phrase of the
\* keyword lists), and String.prototype.includes is token membership.
\* ------------------------------------------------------------------------
Includes(text, word) == \E i \in 1..Len(text) : text[i] = word

\* Number of entries of a word list that the text includes
Hits(text, words) == Cardinality({i \in 1..Len(words) : Includes(text, words[i])})

Max(a, b) == IF a > b THEN a ELSE b
Min(a, b) == IF a < b THEN a ELSE b

highSeverityWords ==
  <<"critical", "urgent", "broken", "failing", "disaster", "nightmare",
    "impossible", "terrible", "awful", "hate", "frustrated", "angry">>

lowSeverityWords ==
  <<"minor", "small", "little", "slight", "would be nice", "improvement">>

urgentWords ==
  <<"now", "immediately", "asap", "urgent", "quickly", "deadline", "today",
    "this week", "right away", "emergency">>

nonUrgentWords ==
  <<"someday", "eventually", "future", "when i have time", "nice to have">>

\* Variant: the result is not clamped
calculateSeverityUnclamped(text) ==
  5 + Hits(text, highSeverityWords) - Hits(text, lowSeverityWords)

\* calculateSeverity (330-369)
calculateSeverity(text) ==
  Max(1, Min(10, 5 + Hits(text, highSeverityWords) - Hits(text, lowSeverityWords)))

\* calculateUrgency (374-408)
calculateUrgency(text) ==
  Max(1, Min(10, 5 + Hits(text, urgentWords) - Hits(text, nonUrgentWords)))

\* createProblemStatement (284-309), the two graded fields; the length gate
\* of line 288 only withholds statements
createProblemStatement(text) ==
  [text |-> text, severity |-> calculateSeverity(text),
   urgency |-> calculateUrgency(text)]

\* Sentences holding the first h, l, u and n words of the four lists
Sentence(h, l, u, n) ==
  SubSeq(highSeverityWords, 1, h) \o SubSeq(lowSeverityWords, 1, l)
    \o SubSeq(urgentWords, 1, u) \o SubSeq(nonUrgentWords, 1, n)

\* A sentence in which its first token is said again r more times
Repeating(text, r) ==
  IF text = <<>> THEN text ELSE text \o [i \in 1..r |-> text[1]]

InitSeverity ==
  /\ InitPipe /\ InitRankIdle /\ InitParseIdle /\ InitRateIdle /\ InitConcIdle
  /\ cpIn \in {Repeating(Sentence(h, l, u, n), r) :
                 h \in 0..Len(highSeverityWords), l \in 0..Len(lowSeverityWords),
                 u \in {0, 1, 5, 6, Len(urgentWords)},
                 n \in {0, 4, Len(nonUrgentWords)},
                 r \in 0..MaxRepeats}
  /\ cpOut = <<>>
  /\ cpPc = "input"

CreateProblemStatement ==
  /\ cpPc = "input"
  /\ cpOut' = createProblemStatement(cpIn)
  /\ cpPc' = "stated"
  /\ UNCHANGED <<exceptCp, cpIn>>

NextSeverity == CreateProblemStatement

SpecSeverity == InitSeverity /\ [][NextSeverity]_vars

\* ------------------------------------------------------------------------
\* ContentProcessor.calculateQualityScore.  The post is given by what the
\* score reads from it: the tokens of title and selftext, selftext.length,
\* post.score, and the numbers of pieces the two split() calls of
\* calculateReadability yield; problems is the list extractProblems returned,
\* each statement with its keywords.
\* ------------------------------------------------------------------------
actionWords == <<"need", "want", "looking for", "solution", "help", "fix">>

\* Math.round(a / b) for a >= 0, b > 0: halves round up
Round(a, b) == (2 * a + b) \div (2 * b)

\* calculateReadability (674-685): avgWordsPerSentence = words / max(1, sentences)
calculateReadability(words, sentences) ==
  LET d == Max(1, sentences)
  IN IF words >= 15 * d /\ words <= 20 * d THEN 90
     ELSE IF words >= 10 * d /\ words <= 25 * d THEN 70
     ELSE 50

\* extractKeywords (432-450): at most five of the candidate words are kept
extractKeywords(candidates) == Slice(candidates, 5)

\* line 590
Specificity(problems) ==
  IF Len(problems) > 0 THEN Len(problems[1].keywords) * 10 ELSE 0

\* Variant: the score is not capped at 100
calculateActionabilityUncapped(post) ==
  Hits(post.title \o post.selftext, actionWords) * 20

\* calculateActionability (687-703)
calculateActionability(post) ==
  Min(100, Hits(post.title \o post.selftext, actionWords) * 20)

\* calculateAuthenticity (705-714)
calculateAuthenticity(post) ==
  Min(100, 70 + (IF post.selftextLength > 100 THEN 10 ELSE 0)
              + (IF post.score > 10 THEN 10 ELSE 0)
              + (IF ~Includes(post.title, "check out") THEN 10 ELSE 0))

\* calculateQualityScore (583-609), without contentLength
calculateQualityScore(post, problems) ==
  LET readability == calculateReadability(post.words, post.sentences)
      specificity == Specificity(problems)
      actionability == calculateActionability(post)
      authenticity == calculateAuthenticity(post)
      overall == Round(readability + specificity + actionability + authenticity, 4)
  IN [overall |-> Max(0, Min(100, overall)),
      readability |-> readability, specificity |-> specificity,
      actionability |-> actionability, authenticity |-> authenticity]

\* (words, sentences) pairs on both sides of every threshold of calculateReadability
WordCounts ==
  {<<1, 1>>, <<9, 1>>, <<10, 1>>, <<14, 1>>, <<15, 1>>, <<20, 1>>, <<21, 1>>,
   <<25, 1>>, <<26, 1>>, <<30, 2>>, <<19, 2>>, <<2, 3>>}

QualityPosts ==
  {[title |-> (IF promo THEN <<"check out">> ELSE <<>>) \o SubSeq(actionWords, 1, a),
    selftext |-> IF sl > 0 THEN <<"text">> ELSE <<>>,
    selftextLength |-> sl, score |-> sc,
    words |-> ws[1], sentences |-> ws[2]] :
     promo \in BOOLEAN, a \in 0..Len(actionWords), sl \in {0, 100, 101},
     sc \in {10, 11}, ws \in WordCounts}

\* No problem statement, or a first statement with 0..7 candidate keywords
QualityProblems ==
  {<<>>} \cup {<<[keywords |-> extractKeywords([i \in 1..k |-> i])]>> : k \in 0..7}

InitQuality ==
  /\ InitPipe /\ InitRankIdle /\ InitParseIdle /\ InitRateIdle /\ InitConcIdle
  /\ cpIn \in [post : QualityPosts, problems : QualityProblems]
  /\ cpOut = <<>>
  /\ cpPc = "input"

CalculateQualityScore ==
  /\ cpPc = "input"
  /\ cpOut' = calculateQualityScore(cpIn.post, cpIn.problems)
  /\ cpPc' = "scored"
  /\ UNCHANGED <<exceptCp, cpIn>>

NextQuality == CalculateQualityScore

SpecQuality == InitQuality /\ [][NextQuality]_vars

\* ------------------------------------------------------------------------
\* ContentProcessor.processContent called twice on the same post and replies.
\* A call is made at a reading of the clock: now (Date.now(), in hours),
\* month (new Date().getMonth()), and elapsed, the milliseconds the call takes.
\* ------------------------------------------------------------------------
PROBLEM_KEYWORDS ==
  <<"struggling with", "problem with", "issue with", "difficulty", "challenge",
    "frustrating", "annoying", "broken", "doesn't work", "failing", "need help",
    "looking for", "wish there was", "if only", "waste time", "takes forever",
    "so slow", "inefficient", "manual process", "repetitive", "tedious",
    "time-consuming", "expensive", "costly", "alternative to", "better than",
    "replace", "automate", "simplify", "streamline", "optimize", "improve",
    "solution", "tool for">>

\* containsProblemIndicators (274-279)
containsProblemIndicators(text) == Hits(text, PROBLEM_KEYWORDS) > 0

\* extractProblems (219-247) for a post whose title and selftext form one
\* sentence and whose replies are not high-value ones (line 235)
extractProblems(post) ==
  LET text == post.title \o post.selftext
  IN IF containsProblemIndicators(text)
     THEN <<[statement |-> createProblemStatement(text),
             keywords |-> extractKeywords(text)]>>
     ELSE <<>>

\* calculateEngagementMetrics (486-508): viralityScore is
\* min(100, score / max(1, age) * 10), kept as numerator and denominator
calculateEngagementMetrics(post, now) ==
  LET age == Max(1, now - post.created_utc)
  IN [score |-> post.score,
      viralityScore |-> IF post.score * 10 >= 100 * age
                        THEN <<100, 1>> ELSE <<post.score * 10, age>>]

\* getSeasonality (644-661)
getSeasonality(month) ==
  <<"Winter", "Winter", "Spring", "Spring", "Spring", "Summer", "Summer",
    "Summer", "Fall", "Fall", "Fall", "Winter">>[month + 1]

\* analyzeTemporalContext (513-526)
analyzeTemporalContext(post, now, month) ==
  LET postAge == now - post.created_utc
  IN [postAge |-> postAge,
      trendingStatus |->
        IF postAge < 2 /\ post.score > 100 THEN "hot"
        ELSE IF postAge < 6 /\ post.score > 50 THEN "rising"
        ELSE IF postAge > 24 /\ post.score < 10 THEN "declining"
        ELSE "stable",
      seasonality |-> getSeasonality(month)]

\* processContent (169-201); of the context, engagement and temporalContext
processContent(post, replies, clock) ==
  LET problems == extractProblems(post)
  IN [contentHash |-> ContentHash(post.title, post.selftext, replies),
      problems |-> problems,
      context |-> [engagement |-> calculateEngagementMetrics(post, clock.now),
                   temporalContext |->
                     analyzeTemporalContext(post, clock.now, clock.month)],
      quality |-> calculateQualityScore(post, problems),
      metadata |-> [processedAt |-> clock.now, processingVersion |-> "1.0.0",
                    sourceType |-> "post", processingTime |-> clock.elapsed]]

ProcessPosts ==
  {[title |-> tt, selftext |-> <<>>, selftextLength |-> 0, score |-> sc,
    words |-> 12, sentences |-> 1, created_utc |-> 0] :
     tt \in {<<"broken", "need">>, <<"hello">>}, sc \in {5, 60, 150}}

\* Readings of the clock, in the order of time
Clocks ==
  <<[now |-> 1, month |-> 1], [now |-> 1, month |-> 1], [now |-> 3, month |-> 1],
    [now |-> 7, month |-> 1], [now |-> 25, month |-> 1], [now |-> 25, month |-> 2]>>

Elapsed == {0, 1}

InitProcess ==
  /\ InitPipe /\ InitRankIdle /\ InitParseIdle /\ InitRateIdle /\ InitConcIdle
  /\ cpIn \in [post : ProcessPosts,
               first : {c \in 1..Len(Clocks) : c <= MaxClock},
               second : {c \in 1..Len(Clocks) : c <= MaxClock},
               elapsed : Elapsed \X Elapsed]
  /\ cpIn.first < cpIn.second
  /\ cpOut = <<>>
  /\ cpPc = "input"

ClockAt(c, e) == [now |-> Clocks[c].now, month |-> Clocks[c].month, elapsed |-> e]

ProcessFirst ==
  /\ cpPc = "input"
  /\ cpOut' = <<processContent(cpIn.post, <<>>, ClockAt(cpIn.first, cpIn.elapsed[1]))>>
  /\ cpPc' = "once"
  /\ UNCHANGED <<exceptCp, cpIn>>

ProcessSecond ==
  /\ cpPc = "once"
  /\ cpOut' = Append(cpOut,
                processContent(cpIn.post, <<>>, ClockAt(cpIn.second, cpIn.elapsed[2])))
  /\ cpPc' = "twice"
  /\ UNCHANGED <<exceptCp, cpIn>>

NextProcess == ProcessFirst \/ ProcessSecond

SpecProcess == InitProcess /\ [][NextProcess]_vars

\* ------------------------------------------------------------------------
\* RedditApiClient.makeRequest (122-166) and enforceRateLimit (103-117) of
\* the singleton redditClient, called by several asynchronous callers (each
\* caller awaits a request before it makes the next).  Time is in
\* milliseconds and advances in ticks of TickMs.
\* ------------------------------------------------------------------------
TickMs == 500

Callers == 1..NumCallers

InitRate ==
  /\ InitPipe /\ InitRankIdle /\ InitParseIdle /\ InitCpIdle /\ InitConcIdle
  /\ dateNow = minInterval
  /\ lastRequestTime = 0
  /\ callers = [c \in Callers |-> [pc |-> "idle", wake |-> 0, made |-> 0]]
  /\ sentAt = <<>>

Tick ==
  /\ dateNow < minInterval + MaxTicks * TickMs
  /\ dateNow' = dateNow + TickMs
  /\ UNCHANGED <<exceptRate, lastRequestTime, callers, sentAt>>

\* lines 123-124 and 104-114: with a valid token, the caller reads the clock
\* and lastRequestTime; it either goes on at once (line 116, then the fetch
\* of line 133) or sets a timer for the rest of the interval
MakeRequest(c) ==
  /\ callers[c].pc = "idle"
  /\ callers[c].made < MaxRequests
  /\ LET timeSinceLastRequest == dateNow - lastRequestTime
     IN IF timeSinceLastRequest < minInterval
        THEN /\ callers' = [callers EXCEPT
                             ![c].pc = "waiting",
                             ![c].wake = dateNow + (minInterval - timeSinceLastRequest),
                             ![c].made = @ + 1]
             /\ UNCHANGED <<lastRequestTime, sentAt>>
        ELSE /\ lastRequestTime' = dateNow
             /\ sentAt' = Append(sentAt, dateNow)
             /\ callers' = [callers EXCEPT ![c].pc = "fetching", ![c].made = @ + 1]
  /\ UNCHANGED <<exceptRate, dateNow>>

\* lines 113 and 116, then the fetch of line 133: the timer has fired
TimerFired(c) ==
  /\ callers[c].pc = "waiting"
  /\ dateNow >= callers[c].wake
  /\ lastRequestTime' = dateNow
  /\ sentAt' = Append(sentAt, dateNow)
  /\ callers' = [callers EXCEPT ![c].pc = "fetching"]
  /\ UNCHANGED <<exceptRate, dateNow>>

\* lines 133-161: the response (or the failure) arrives
Response(c) ==
  /\ callers[c].pc = "fetching"
  /\ callers' = [callers EXCEPT ![c].pc = "idle"]
  /\ UNCHANGED <<exceptRate, dateNow, lastRequestTime, sentAt>>

NextRate ==
  \/ Tick
  \/ \E c \in Callers : MakeRequest(c)
  \/ \E c \in Callers : TimerFired(c)
  \/ \E c \in Callers : Response(c)

SpecRate == InitRate /\ [][NextRate]_vars

\* ------------------------------------------------------------------------
\* Two runs of the pipeline over the first subreddit, deduplication enabled
\* and every collaborator call succeeding, sharing content_fingerprints.
\* Each run is the loop of processSubreddit (234-283); the runs interleave
\* at their awaits.  Both sort strategies list every thread of the subreddit.
\* ------------------------------------------------------------------------
Runs == {1, 2}

ConcThreads == {t \in Threads : t.sub = Subreddits[1]}

IdleRun ==
  [pc |-> "idle", ti |-> 1, pi |-> 1, posts |-> <<>>, comments |-> <<>>,
   contentHash |-> <<>>, after |-> {}]

InitConc ==
  /\ InitPipe /\ InitRankIdle /\ InitParseIdle /\ InitCpIdle /\ InitRateIdle
  /\ runs = [r \in Runs |-> IdleRun]
  /\ fpTable = {}
  /\ processedCount = [r \in Runs |-> [t \in ConcThreads |-> 0]]

\* Variant: the lookup never finds a row
RecognisedNever(t) == FALSE

\* lines 352-365: the row looked up is the one keyed by the hash of the post
\* without replies
Recognised(t) == generateContentHash(t, <<>>) \in fpTable

\* The loops of lines 234 and 241 of run r go on after post i of listing l
\* under sort strategy t
RunProceed(r, l, i, t) ==
  LET j == NextEligible(l, i + 1)
  IN IF j <= Len(l)
     THEN [runs[r] EXCEPT !.pc = "dupCheck", !.pi = j, !.ti = t, !.posts = l]
     ELSE IF t < Len(sortTypes)
     THEN [runs[r] EXCEPT !.pc = "fetchPosts", !.pi = 1, !.ti = t + 1, !.posts = <<>>]
     ELSE [runs[r] EXCEPT !.pc = "done", !.posts = <<>>]

\* runPipeline is called; after records the runs that had ended by then
StartRun(r) ==
  /\ runs[r].pc = "idle"
  /\ runs' = [runs EXCEPT ![r].pc = "fetchPosts",
                          ![r].after = {q \in Runs : runs[q].pc = "done"}]
  /\ UNCHANGED <<exceptConc, fpTable, processedCount>>

\* line 235
RunFetchSubredditPosts(r) ==
  /\ runs[r].pc = "fetchPosts"
  /\ runs' = [runs EXCEPT ![r] =
                RunProceed(r, Ranking(Subreddits[1], sortTypes[runs[r].ti]), 0,
                           runs[r].ti)]
  /\ UNCHANGED <<exceptConc, fpTable, processedCount>>

\* lines 249-254
RunIsDuplicateContent(r) ==
  /\ runs[r].pc = "dupCheck"
  /\ runs' = [runs EXCEPT ![r] =
                IF Recognised(runs[r].posts[runs[r].pi])
                THEN RunProceed(r, runs[r].posts, runs[r].pi, runs[r].ti)
                ELSE [runs[r] EXCEPT !.pc = "comments"]]
  /\ UNCHANGED <<exceptConc, fpTable, processedCount>>

\* line 257
RunFetchPostComments(r) ==
  /\ runs[r].pc = "comments"
  /\ runs' = [runs EXCEPT
                ![r].pc = "process",
                ![r].comments =
                  Slice(SelectSeq(PostComments(runs[r].posts[runs[r].pi]),
                                  CommentPasses),
                        maxCommentsPerPost)]
  /\ UNCHANGED <<exceptConc, fpTable, processedCount>>

\* line 265
RunProcessContent(r) ==
  /\ runs[r].pc = "process"
  /\ runs' = [runs EXCEPT
                ![r].pc = "store",
                ![r].contentHash =
                  generateContentHash(runs[r].posts[runs[r].pi], runs[r].comments)]
  /\ UNCHANGED <<exceptConc, fpTable, processedCount>>

\* lines 271-275: the fingerprint upsert, then the push
RunStoreTemporaryContent(r) ==
  /\ runs[r].pc = "store"
  /\ fpTable' = fpTable \cup {runs[r].contentHash}
  /\ processedCount' =
       [processedCount EXCEPT ![r][runs[r].posts[runs[r].pi]] = @ + 1]
  /\ runs' = [runs EXCEPT ![r] =
                [RunProceed(r, runs[r].posts, runs[r].pi, runs[r].ti)
                   EXCEPT !.comments = <<>>, !.contentHash = <<>>]]
  /\ UNCHANGED exceptConc

NextConc ==
  \E r \in Runs :
    \/ StartRun(r)
    \/ RunFetchSubredditPosts(r)
    \/ RunIsDuplicateContent(r)
    \/ RunFetchPostComments(r)
    \/ RunProcessContent(r)
    \/ RunStoreTemporaryContent(r)

SpecConc == InitConc /\ [][NextConc]_vars

\* ------------------------------------------------------------------------
\* generateIdeasFromContent (422-457) on its own: grouping and the calls of
\* the loop, applied to an arbitrary non-empty list of processed content
\* (line 190 keeps the empty list away)
\* ------------------------------------------------------------------------
GroupPool ==
  {[contentHash |-> <<"sha256", s>>, category |-> mapSubredditToCategory(s),
    post |-> <<s, "1">>] : s \in {"entrepreneur", "SaaS", "startups", "webdev"}}

InitGroup ==
  /\ InitPipe /\ InitRankIdle /\ InitParseIdle /\ InitRateIdle /\ InitConcIdle
  /\ cpIn \in [content : UNION {[1..n -> GroupPool] : n \in 1..MaxGroupInput},
               maxIdeas : {1, 2, DefaultMaxIdeas}]
  /\ cpOut = <<>>
  /\ cpPc = "input"

\* line 427
GroupContent ==
  /\ cpPc = "input"
  /\ cpOut' = [grouped |-> groupContentByCategory(cpIn.content), calls |-> <<>>]
  /\ cpPc' = "grouped"
  /\ UNCHANGED <<exceptCp, cpIn>>

\* lines 435-447: the call for the next category of Object.entries
GenerateCall ==
  /\ cpPc = "grouped"
  /\ LET k == Len(cpOut.calls) + 1
     IN /\ cpOut' = [cpOut EXCEPT !.calls =
                       Append(@, [category |-> cpOut.grouped[k].category,
                                  content |-> cpOut.grouped[k].content,
                                  maxIdeas |-> Ceil(cpIn.maxIdeas, Len(cpOut.grouped))])]
        /\ cpPc' = IF k < Len(cpOut.grouped) THEN "grouped" ELSE "generated"
  /\ UNCHANGED <<exceptCp, cpIn>>

NextGroup == GroupContent \/ GenerateCall

SpecGroup == InitGroup /\ [][NextGroup]_vars

\* ------------------------------------------------------------------------
\* ContentProcessor.extractProblems (219-247) on the problem statements
\* that extractProblemsFromText yields for the root post and for the
\* high-value replies.  A statement's text is a sequence of one-character
\* strings.
\* ------------------------------------------------------------------------
ProblemKeyLength == 50

\* Variant: the key keeps the case of the text
ProblemKeyCaseSensitive(problem) == Slice(problem.text, ProblemKeyLength)

\* line 624
ProblemKey(problem) == Slice(toLowerCase(problem.text), ProblemKeyLength)

RECURSIVE DedupProblemsFrom(_, _, _)
DedupProblemsFrom(problems, i, seen) ==
  IF i > Len(problems) THEN <<>>
  ELSE IF ProblemKey(problems[i]) \in seen
       THEN DedupProblemsFrom(problems, i + 1, seen)
       ELSE <<problems[i]>>
              \o DedupProblemsFrom(problems, i + 1,
                                   seen \cup {ProblemKey(problems[i])})

\* deduplicateProblems (619-629)
deduplicateProblems(problems) == DedupProblemsFrom(problems, 1, {})

\* Statement texts: 49 characters followed by a, A or b and then possibly
\* more, and a text shorter than the key (createProblemStatement admits 20
\* to 500 characters)
ProblemTexts ==
  {Rep("x", ProblemKeyLength - 1) \o tail :
     tail \in {<<"a">>, <<"A">>, <<"b">>, <<"a", "y">>}}
    \cup {Rep("x", 20)}

ProblemLists(source) ==
  UNION {[1..n -> [text : ProblemTexts, source : {source}]] : n \in 0..MaxProblems}

InitProblems ==
  /\ InitPipe /\ InitRankIdle /\ InitParseIdle /\ InitRateIdle /\ InitConcIdle
  /\ cpIn \in [postProblems : ProblemLists("post"),
               commentProblems : ProblemLists("comment")]
  /\ cpOut = <<>>
  /\ cpPc = "input"

\* lines 226-230
PushPostProblems ==
  /\ cpPc = "input"
  /\ cpOut' = cpOut \o cpIn.postProblems
  /\ cpPc' = "post"
  /\ UNCHANGED <<exceptCp, cpIn>>

\* lines 237-243
PushCommentProblems ==
  /\ cpPc = "post"
  /\ cpOut' = cpOut \o cpIn.commentProblems
  /\ cpPc' = "comments"
  /\ UNCHANGED <<exceptCp, cpIn>>

\* line 246
DeduplicateProblems ==
  /\ cpPc = "comments"
  /\ cpOut' = deduplicateProblems(cpOut)
  /\ cpPc' = "deduplicated"
  /\ UNCHANGED <<exceptCp, cpIn>>

NextProblems == PushPostProblems \/ PushCommentProblems \/ DeduplicateProblems

SpecProblems == InitProblems /\ [][NextProblems]_vars

\* ------------------------------------------------------------------------
\* ContentProcessor.estimateUserCount (413-434).  The sentence is a sequence
\* of one-character strings and String.prototype.includes is substring
\* search.
\* ------------------------------------------------------------------------
IncludesString(text, word) ==
  \E i \in 0..(Len(text) - Len(word)) : SubSeq(text, i + 1, i + Len(word)) = word

\* lines 417-423
scaleIndicators ==
  <<[words |-> <<<<"e", "v", "e", "r", "y", "o", "n", "e">>,
                 <<"a", "l", "l">>,
                 <<"e", "v", "e", "r", "y", "b", "o", "d", "y">>>>,
     multiplier |-> 1000000],
    [words |-> <<<<"m", "o", "s", "t", " ", "p", "e", "o", "p", "l", "e">>,
                 <<"m", "a", "n", "y">>,
                 <<"l", "o", "t", "s", " ", "o", "f">>>>,
     multiplier |-> 100000],
    [words |-> <<<<"s", "o", "m", "e", " ", "p", "e", "o", "p", "l", "e">>,
                 <<"s", "e", "v", "e", "r", "a", "l">>>>,
     multiplier |-> 10000],
    [words |-> <<<<"f", "e", "w", " ", "p", "e", "o", "p", "l", "e">>,
                 <<"a", " ", "c", "o", "u", "p", "l", "e">>>>,
     multiplier |-> 1000],
    [words |-> <<<<"i">>,
                 <<"m", "e">>,
                 <<"m", "y">>>>,
     multiplier |-> 100]>>

\* line 426
IndicatorMatches(text, k) ==
  \E j \in 1..Len(scaleIndicators[k].words) :
    IncludesString(toLowerCase(text), scaleIndicators[k].words[j])

\* estimateUserCount (413-434); multiplier * 0.5 is whole for every multiplier
estimateUserCount(text, source) ==
  IF \E k \in 1..Len(scaleIndicators) : IndicatorMatches(text, k)
  THEN LET first == CHOOSE k \in 1..Len(scaleIndicators) :
                      /\ IndicatorMatches(text, k)
                      /\ \A m \in 1..(k - 1) : ~IndicatorMatches(text, m)
       IN IF source = "post" THEN scaleIndicators[first].multiplier
          ELSE scaleIndicators[first].multiplier \div 2
  ELSE 5000

\* Words of a sentence: scale words, words that contain a scale word as a
\* part (small, this) and a word that contains none (bug)
SentenceWords ==
  {<<"e", "v", "e", "r", "y", "o", "n", "e">>,
    <<"m", "a", "n", "y">>,
    <<"s", "e", "v", "e", "r", "a", "l">>,
    <<"s", "m", "a", "l", "l">>,
    <<"t", "h", "i", "s">>,
    <<"b", "u", "g">>,
    <<"m", "e">>}

\* "the request seems broken": a problem indicator (line 274), 20 characters
\* or more (line 288), and no scale word in it
SentenceStart ==
  <<"t", "h", "e", " ", "r", "e", "q", "u", "e", "s", "t", " ",
    "s", "e", "e", "m", "s", " ", "b", "r", "o", "k", "e", "n">>

SentencesOfWords ==
  UNION {{Join(<<SentenceStart>> \o ws, <<" ">>) : ws \in [1..n -> SentenceWords]} :
           n \in 1..MaxWords}

InitUsers ==
  /\ InitPipe /\ InitRankIdle /\ InitParseIdle /\ InitRateIdle /\ InitConcIdle
  /\ cpIn \in [text : SentencesOfWords, source : {"post", "comment"}]
  /\ cpOut = <<>>
  /\ cpPc = "input"

\* line 295
EstimateUserCount ==
  /\ cpPc = "input"
  /\ cpOut' = estimateUserCount(cpIn.text, cpIn.source)
  /\ cpPc' = "estimated"
  /\ UNCHANGED <<exceptCp, cpIn>>

NextUsers == EstimateUserCount

SpecUsers == InitUsers /\ [][NextUsers]_vars

\* ------------------------------------------------------------------------
\* processSubreddit (233-239): the limit each sort strategy is fetched with.
\* The quotient of two numbers is kept as numerator and denominator.
\* ------------------------------------------------------------------------
maxPostsPerSubreddit == 25

PostSortTypes == <<"hot", "top", "new", "rising">>

\* a / b
Quotient(a, b) == [num |-> a, den |-> b]

InitLimit ==
  /\ InitPipe /\ InitRankIdle /\ InitParseIdle /\ InitRateIdle /\ InitConcIdle
  /\ cpIn \in [maxPostsPerSubreddit : 1..maxPostsPerSubreddit,
               sortTypes : {SubSeq(PostSortTypes, 1, n) : n \in 1..MaxSortTypes}]
  /\ cpOut = <<>>
  /\ cpPc = "fetching"

\* lines 234-239: the request for the next sort strategy
FetchWithLimit ==
  /\ cpPc = "fetching"
  /\ LET k == Len(cpOut) + 1
     IN /\ cpOut' = Append(cpOut,
                           [sortType |-> cpIn.sortTypes[k],
                            limit |-> Quotient(cpIn.maxPostsPerSubreddit,
                                               Len(cpIn.sortTypes))])
        /\ cpPc' = IF k < Len(cpIn.sortTypes) THEN "fetching" ELSE "fetched"
  /\ UNCHANGED <<exceptCp, cpIn>>

NextLimit == FetchWithLimit

SpecLimit == InitLimit /\ [][NextLimit]_vars

\* ------------------------------------------------------------------------
\* Properties
\* ------------------------------------------------------------------------
Finished == pc \in {"resolved", "rejected"}

HasError(m) == \E i \in 1..Len(result.errors) : result.errors[i].msg = m

\* C1: runPipeline never throws to its caller: whatever the collaborators
\* do, the call ends by returning its PipelineResult.
C1_NeverThrows == mpc # "thrown"

\* C2 (as stated): success = true implies that the timeout did not fire and
\* that at least one generation call was issued.
C2_SuccessImpliesGenerationAttempted ==
  result.success => (~timedOut /\ Len(genLog) > 0)

\* C2 (amended): success = true implies that the timeout did not fire before
\* the processing sequence ended and that the processing sequence ran to
\* completion without rejecting; generation need not have been attempted.
C2_SuccessImpliesCompleted ==
  result.success => (~timedOut /\ pc = "resolved")

C2_Witness ==
  mpc = "returned" /\ result.success /\ genLog = <<>> /\ fetchCalls > 0

\* C3: only the timeout aborts a run: when the timer has not fired before
\* the processing sequence ended, the run does not end with success = false.
C3_OnlyTimeoutAborts ==
  (mpc \in {"log", "returned"} /\ ~timedOut) => result.success

\* C4: when the timer fires before the processing sequence completes, the
\* returned result has success = false and its errors contain the entry
\* 'Pipeline timeout' (also after the detached processing has gone on
\* writing to the result).
C4_TimeoutReported ==
  (mpc = "returned" /\ timedOut) =>
     (~result.success /\ HasError("Pipeline timeout"))

C4_Witness ==
  mpc = "returned" /\ timedOut /\ pc = "resolved" /\ Len(result.errors) > 1

\* C5: the aggregated idea list has at most maxIdeas entries, is sorted
\* non-increasing by overall score, and has no two ideas whose lower-cased
\* name and lower-cased target audience are both equal.
C5_RankedOutput ==
  rkPc = "done" =>
    /\ Len(rkOut) <= rkMax
    /\ \A i, j \in 1..Len(rkOut) :
         i < j =>
           /\ Overall(rkOut[i]) >= Overall(rkOut[j])
           /\ ~(/\ toLowerCase(rkOut[i].name) = toLowerCase(rkOut[j].name)
                /\ toLowerCase(rkOut[i].targetAudience)
                     = toLowerCase(rkOut[j].targetAudience))

C5_Witness ==
  /\ rkPc = "done"
  /\ Len(rkIdeas) > rkMax
  /\ Len(rkOut) = rkMax
  /\ rkMax >= 2
  /\ \E i, j \in 1..Len(rkIdeas) :
       i < j /\ IdeaKey(rkIdeas[i]) = IdeaKey(rkIdeas[j])
             /\ Overall(rkIdeas[i]) < Overall(rkIdeas[j])

\* C6: once a thread's fingerprint record has been written, a later
\* duplicate check of the same thread whose lookup works recognises it and
\* skips the thread, whether or not the thread has replies.
C6_StoredFingerprintRecognised ==
  [][(pc = "dupCheck" /\ posts[pi] \in written
        /\ lookup' # lookup /\ lookup'.o = "ok")
       => pc' # "comments"]_vars

\* C7: with two categories of which one generation call throws, the result
\* holds exactly the aggregated ideas of the surviving category and errors
\* holds one entry for the generation failure.
C7_GenerationFailureRecorded ==
  (/\ pc \in {"storeIdeas", "resolved", "rejected"}
   /\ Len(genLog) = 2
   /\ Cardinality({i \in 1..2 : genLog[i].threw}) = 1)
  => LET s == CHOOSE i \in 1..2 : ~genLog[i].threw
     IN /\ result.ideas = AggregateIdeas(genLog[s].ideas, config.maxIdeas)
        /\ Cardinality({i \in 1..Len(result.errors) :
                          result.errors[i].msg = "generation failed"}) = 1

\* C8: a failed fetch of a thread list or of replies adds an entry to the
\* result's errors, and the remaining sort strategies are still fetched.
C8_FetchFailureRecorded ==
  Finished =>
    /\ fetchCalls = NumSources * Len(sortTypes)
    /\ Len(fetchLog) > 0 => HasError("reddit request failed")

\* C9: failure isolation: whatever failed while handling a thread, every
\* thread of every listing enters the loop body, every sort strategy of
\* every source is fetched, every source is merged into the result, and
\* the processing sequence ends only by way of the generation stage.
C9_FailureIsolation ==
  /\ pc \in {"fetchPosts", "generate", "storeIdeas", "resolved", "rejected"}
       => begunN = fetchedN
  /\ pc \in {"generate", "storeIdeas", "resolved", "rejected"}
       => /\ fetchCalls = NumSources * Len(sortTypes)
          /\ result.subredditsProcessed = NumSources

C9_Witness ==
  /\ pc = "generate"
  /\ \E i \in 1..Len(result.errors) : result.errors[i].scope = "Post"
  /\ fetchedN = NumSources * Len(sortTypes) * MaxPosts
  /\ begunN = fetchedN

\* C10: the duplicate check is fail-open: when the lookup fails (query
\* error, thrown exception, storage client unavailable) the thread goes on
\* to the reply fetch and no error is recorded for it.
C10_FailOpen ==
  [][(pc = "dupCheck" /\ lookup' # lookup
        /\ lookup'.o \in {"queryError", "throws", "noClient"})
       => (pc' = "comments" /\ pi' = pi /\ sub' = sub)]_vars

\* C11: a fetched thread that is pinned or scores below config.minPostScore
\* is passed over: no call (duplicate lookup, reply fetch, content
\* processing, persistence) is pending or made for it, no ProcessedContent
\* exists for it, postsProcessed counts only produced content, and no error
\* entry names it.
SkippedIds ==
  {PostId(t) : t \in {u \in Threads : PostStickied(u) \/ PostScore(u) < minPostScore}}

WellScored(idea) ==
  \A sc \in {"overall", "painSeverity", "marketSize", "competition",
              "implementationDifficulty"} :
    /\ sc \in DOMAIN idea.scoring
    /\ idea.scoring[sc].type = "number"
    /\ 0 <= idea.scoring[sc].n /\ idea.scoring[sc].n <= 100

C12_OnlyScoredIdeasReturned ==
  prPc = "done" =>
    /\ \A i \in 1..Len(prOut) : WellScored(prOut[i])
    /\ prOut = ParseResponse(SelectSeq(prIdeas, WellScored), prMax)
    /\ \A i \in 1..Len(prIdeas) :
         (~WellScored(prIdeas[i])) => \A j \in 1..Len(prOut) : prOut[j] # prIdeas[i]

\* An idea without scoring.competition precedes a valid one, which is returned
C12_Witness ==
  /\ prPc = "done"
  /\ Len(prIdeas) = 2
  /\ "competition" \notin DOMAIN prIdeas[1].scoring
  /\ prOut = <<prIdeas[2]>>

\* C13: the aggregation computes the same list as the reference aggregator
\* 'stable sort by overall descending, then first-seen-wins dedup on the
\* lower-cased (name, targetAudience) key, then truncate to maxIdeas'.
C13_MatchesReference ==
  rkPc = "done" =>
    rkOut = Slice(deduplicateIdeas(SortDesc(rkIdeas)), rkMax)

\* C14: two threads that differ in title, in body or in one of their first
\* five replies have different fingerprints, and threads equal in all of
\* these have equal fingerprints (the digest taken as collision-free).
HashedParts(t) ==
  <<t.title, t.selftext,
    [i \in 1..Len(Slice(t.comments, HashedComments)) |-> t.comments[i].body]>>

C14_FingerprintInjective ==
  cpPc = "hashed" =>
    (cpOut[1] = cpOut[2] <=> HashedParts(cpIn[1]) = HashedParts(cpIn[2]))

\* C15: processContent is idempotent and deterministic: two calls on the
\* same thread and replies, at any two points in time, give results equal
\* in every field except metadata.processedAt.
C15_ProcessContentIdempotent ==
  cpPc = "twice" =>
    [cpOut[1] EXCEPT !.metadata.processedAt = 0]
      = [cpOut[2] EXCEPT !.metadata.processedAt = 0]

\* C16: severity and urgency of every problem statement are integers
\* between 1 and 10, however many intensity or urgency words the sentence
\* contains.
C16_SeverityUrgencyInRange ==
  cpPc = "stated" =>
    /\ cpOut.severity \in 1..10
    /\ cpOut.urgency \in 1..10

\* Seven or more high-severity words and no low-severity word: the sum
\* 5 + 7 exceeds the range and is clamped
C16_Witness ==
  /\ cpPc = "stated"
  /\ Hits(cpIn, highSeverityWords) >= 7
  /\ Hits(cpIn, lowSeverityWords) = 0
  /\ cpOut.severity = 10

\* C17: QualityScore.overall lies in [0,100] and is the arithmetic mean of
\* readability, specificity, actionability and authenticity rounded to an
\* integer, and each of the four sub-scores lies in [0,100].
C17_QualityIsBoundedMean ==
  cpPc = "scored" =>
    LET sum == cpOut.readability + cpOut.specificity
                 + cpOut.actionability + cpOut.authenticity
    IN /\ cpOut.overall \in 0..100
       /\ 4 * cpOut.overall - sum \in -2..2
       /\ \A f \in {"readability", "specificity", "actionability", "authenticity"} :
            cpOut[f] \in 0..100

\* All six action words (6 * 20 capped to 100) and a mean that is not an integer
C17_Witness ==
  /\ cpPc = "scored"
  /\ Hits(cpIn.post.title, actionWords) = 6
  /\ cpOut.actionability = 100
  /\ (cpOut.readability + cpOut.specificity + cpOut.actionability
        + cpOut.authenticity) % 4 # 0

\* C18: any two HTTP requests sent through the singleton client, also by
\* callers running concurrently, are sent at least 1000 ms apart.
C18_MinInterval ==
  \A i, j \in 1..Len(sentAt) :
    i < j => sentAt[j] - sentAt[i] >= minInterval

\* C19: the duplicate check and the fingerprint write are not atomic.  Two
\* concurrent runs can both pass the check for the same thread and both
\* process it (the witness); without concurrency this does not happen: a
\* run never processes twice a thread whose fingerprint it looks up as
\* stored, and a run started after another has ended does not process again
\* what that run processed.
LooksUpStoredHash(t) ==
  generateContentHash(t, <<>>)
    = generateContentHash(t, Slice(SelectSeq(PostComments(t), CommentPasses),
                                   maxCommentsPerPost))

C19_DuplicatesNeedConcurrency ==
  runs # <<>> =>
    \A t \in {u \in ConcThreads : LooksUpStoredHash(u)} :
      /\ \A r \in Runs : processedCount[r][t] <= 1
      /\ \A r, q \in Runs :
           q \in runs[r].after => ~(processedCount[r][t] > 0 /\ processedCount[q][t] > 0)

C19_Witness ==
  /\ runs # <<>>
  /\ \E t \in {u \in ConcThreads : LooksUpStoredHash(u)} :
       \A r \in Runs : processedCount[r][t] = 1

\* C20: stage ordering within one run: no generation call is issued before
\* every configured source has been processed; idea persistence is attempted
\* only after the last generation call; the batch-log record is written
\* after idea persistence, as the last collaborator call of the run, at most
\* once, with status 'completed' iff success is true.
C20_StageOrder ==
  [][/\ Len(genLog') > Len(genLog)
        => (result.subredditsProcessed = NumSources
            /\ fetchCalls = NumSources * Len(sortTypes))
     /\ (pc = "storeIdeas" /\ pc' # pc) => Len(genLog) = Len(grouped)
     /\ mpc \in {"returned", "thrown"} => pc' = pc
     /\ batches' # batches
        => /\ batches = <<>>
           /\ pc \in {"resolved", "rejected"}
           /\ batches'[1].status = "completed" <=> result.success]_vars

\* C21: within one run at most one collaborator call (thread fetch, reply
\* fetch, fingerprint lookup or write, temporary insert, generation call,
\* idea insert, batch-log insert) is outstanding at any moment, also after
\* the timer has fired.
OutstandingCalls ==
  (IF pc \in {"fetchPosts", "dupCheck", "comments", "store", "generate", "storeIdeas"}
   THEN 1 ELSE 0)
  + (IF mpc = "log" THEN 1 ELSE 0)

C21_SingleOutstandingCall == OutstandingCalls <= 1

\* C22: every ProcessedContent is passed to exactly one generation call, the
\* one for its category; exactly one call is issued per distinct category
\* present; each call gets the quota ceil(maxIdeas / categoryCount).
CategoriesPresent == {cpIn.content[i].category : i \in 1..Len(cpIn.content)}

C22_GroupingAndQuota ==
  cpPc = "generated" =>
    LET n == Cardinality(CategoriesPresent)
    IN /\ Len(cpOut.calls) = n
       /\ \A c \in CategoriesPresent :
            \E k \in 1..Len(cpOut.calls) :
              /\ cpOut.calls[k].category = c
              /\ cpOut.calls[k].content
                   = SelectSeq(cpIn.content, LAMBDA item : item.category = c)
              /\ \A j \in 1..Len(cpOut.calls) : cpOut.calls[j].category = c => j = k
       /\ \A k \in 1..Len(cpOut.calls) :
            /\ cpOut.calls[k].maxIdeas * n >= cpIn.maxIdeas
            /\ (cpOut.calls[k].maxIdeas - 1) * n < cpIn.maxIdeas

\* Two categories, one of them with two items, and a quota that is rounded up
C22_Witness ==
  /\ cpPc = "generated"
  /\ Len(cpIn.content) = 3
  /\ Len(cpOut.calls) = 2
  /\ Len(cpOut.calls[1].content) = 2
  /\ cpIn.maxIdeas = DefaultMaxIdeas
  /\ cpOut.calls[1].maxIdeas = 3

\* Number of tokens of the text that are words of the list, repeated
\* occurrences counted each time
Occurrences(text, words) ==
  Cardinality({i \in 1..Len(text) : \E j \in 1..Len(words) : words[j] = text[i]})

\* C23: severity is 5 plus the number of occurrences of high-intensity words
\* minus the number of occurrences of low-intensity words, repeated
\* occurrences of a word counted each time, clamped to 1..10; urgency
\* likewise from the urgent and non-urgent lists.
C23_SeverityPerOccurrence ==
  cpPc = "stated" =>
    /\ cpOut.severity
         = Max(1, Min(10, 5 + Occurrences(cpIn, highSeverityWords)
                            - Occurrences(cpIn, lowSeverityWords)))
    /\ cpOut.urgency
         = Max(1, Min(10, 5 + Occurrences(cpIn, urgentWords)
                            - Occurrences(cpIn, nonUrgentWords)))

\* The candidates in extraction order: root post first, then the replies
Candidates == cpIn.postProblems \o cpIn.commentProblems

\* The first 50 characters of a text, compared ignoring case
PrefixIgnoringCase(text) ==
  toLowerCase(SubSeq(text, 1, Min(ProblemKeyLength, Len(text))))

\* Positions of the candidates that no earlier candidate shares its prefix with
FirstOfPrefix ==
  {i \in 1..Len(Candidates) :
     \A j \in 1..(i - 1) :
       PrefixIgnoringCase(Candidates[j].text) # PrefixIgnoringCase(Candidates[i].text)}

IncludesWord(text, word) ==
  IncludesString(<<" ">> \o toLowerCase(text) \o <<" ">>, <<" ">> \o word \o <<" ">>)

GroupHasWord(text, k) ==
  \E j \in 1..Len(scaleIndicators[k].words) :
    IncludesWord(text, scaleIndicators[k].words[j])

\* The constant of the first group one of whose scale words is a word of
\* the sentence, 5,000 when there is none
WholeWordEstimate(text) ==
  IF \E k \in 1..Len(scaleIndicators) : GroupHasWord(text, k)
  THEN scaleIndicators[CHOOSE k \in 1..Len(scaleIndicators) :
                         /\ GroupHasWord(text, k)
                         /\ \A m \in 1..(k - 1) : ~GroupHasWord(text, m)].multiplier
  ELSE 5000

\* C25: the estimate is decided by whole scale words only (5,000 when the
\* sentence has none, otherwise the constant of the first matching group),
\* and a problem from a reply gets exactly half the value the same sentence
\* gets in a root post.
C25_UserCountByWholeWords ==
  cpPc = "estimated" =>
    IF cpIn.source = "post" THEN cpOut = WholeWordEstimate(cpIn.text)
    ELSE 2 * cpOut = WholeWordEstimate(cpIn.text)

IsWhole(q) == q.num % q.den = 0

RECURSIVE SumOfLimits(_, _)
\* Sum of the first k limits as a quotient over the common denominator
SumOfLimits(requests, k) ==
  IF k = 0 THEN 0 ELSE requests[k].limit.num + SumOfLimits(requests, k - 1)

\* C26: every sort strategy is fetched with the same limit, the limit is a
\* whole number, and the limits of one source sum to at most
\* maxPostsPerSubreddit, for every cap and every non-empty list of sort
\* strategies.
C26_WholeLimitWithinCap ==
  \A k \in 1..Len(cpOut) :
    /\ cpOut[k].limit = cpOut[1].limit
    /\ IsWhole(cpOut[k].limit)
    /\ SumOfLimits(cpOut, Len(cpOut))
         <= cpIn.maxPostsPerSubreddit * cpOut[k].limit.den

\* C27: once runPipeline has written the batch log and returned its result,
\* in particular after a timeout, the run makes no further change: the
\* returned result is not mutated and no ideas are persisted.
C27_NoEffectsAfterReturn ==
  [][mpc = "returned" => (result' = result /\ productIdeas' = productIdeas)]_vars

\* C28: a persistence failure never loses analysed content: whatever the
\* outcome of persisting a thread's fingerprint and temporary copy, the
\* thread's ProcessedContent joins the content handed to the generation
\* stage and is counted in postsAnalyzed.
C28_PersistenceFailureKeepsContent ==
  [][(pc = "store" /\ pc' # "store") =>
       LET before == allProcessedContent \o sub.processedContent
           after == allProcessedContent' \o sub'.processedContent
       IN /\ after = Append(before, processed)
          /\ result'.postsAnalyzed + sub'.postsProcessed
               = result.postsAnalyzed + sub.postsProcessed + 1]_vars

\* Equal names and equal target audiences, both ignoring case
SameIdea(x, y) ==
  /\ toLowerCase(x.name) = toLowerCase(y.name)
  /\ toLowerCase(x.targetAudience) = toLowerCase(y.targetAudience)

\* C29: idea dedup never collapses distinct ideas: an idea is dropped only
\* for an idea kept before it whose name and whose target audience both
\* equal its own ignoring case; ideas differing in either field are all kept.
C29_DedupKeepsDistinctIdeas ==
  rkPc = "deduped" =>
    \A i \in 1..Len(rkIdeas) :
      \E k \in 1..Len(rkOut) : SameIdea(rkIdeas[i], rkOut[k])

IsPrefix(a, b) == Len(a) <= Len(b) /\ SubSeq(b, 1, Len(a)) = a

CountersConsistent ==
  (pc = "resolved" /\ ~timedOut) =>
    /\ result.postsAnalyzed = Len(allProcessedContent)
    /\ result.ideasGenerated = Len(result.ideas)
    /\ result.subredditsProcessed = NumSources

CountersGrow ==
  /\ IsPrefix(result.errors, result'.errors)
  /\ result'.postsAnalyzed >= result.postsAnalyzed
  /\ result'.ideasGenerated >= result.ideasGenerated
  /\ result'.subredditsProcessed >= result.subredditsProcessed

\* C30: when the processing sequence completes without timeout,
\* postsAnalyzed equals the number of ProcessedContent items handed to the
\* generation stage, ideasGenerated equals the length of result.ideas and
\* subredditsProcessed equals the number of enabled sources; during the run
\* errors only grows and the counters never decrease.
C30_CountersConsistent == []CountersConsistent /\ [][CountersGrow]_vars

\* Both sources contributed content, a thread failed, ideas were generated
C30_Witness ==
  /\ pc = "resolved" /\ ~timedOut
  /\ result.postsAnalyzed >= 2
  /\ \E i, j \in 1..Len(allProcessedContent) :
       allProcessedContent[i].post[1] # allProcessedContent[j].post[1]
  /\ result.ideasGenerated > 0
  /\ Len(result.errors) > 0

====
